---- MODULE Spec2Model ----
(***************************************************************************)
(* Model of the crawl engine of Web-Crawler.py: the URL helpers            *)
(* (canonicalize, strip_fragment, has_query) and CrawlerWorker.run, the    *)
(* breadth-first loop over the frontier with its node table, adjacency     *)
(* table and visited set.                                                  *)
(*                                                                         *)
(* A URL is held as the 5-tuple urlparse() yields for it (the ;params      *)
(* component is empty for every URL of the universe below, so it is left   *)
(* out).  Every URL of the universe is absolute, so the tuple and the      *)
(* string determine each other.  A path is the sequence of its characters. *)
(*                                                                         *)
(* The web is the environment: what a fetch returns, and what each anchor  *)
(* and form of a page holds, is chosen when the code reads it.             *)
(*                                                                         *)
(* Spec is the worker on its own.  CanonSpec is canonicalize on its own,   *)
(* on URL texts, with urlparse and urlunparse as urllib computes them,     *)
(* ;params included.  GuiSpec is the worker started by MainWindow, with    *)
(* the slots of the window running in their own thread.                    *)
(***************************************************************************)
EXTENDS Integers, Sequences, FiniteSets, TLC

\* ---------------------------------------------------------------- bounds
MaxPagesBound == 4      \* max_pages ranges over 1..MaxPagesBound
MaxDepthBound == 1      \* max_depth ranges over 0..MaxDepthBound
MaxAnchors == 1         \* anchors on one page
MaxForms == 1           \* forms on one page

\* ---------------------------------------------------------------- URLs
U(s, n, p, q, f) == [scheme |-> s, netloc |-> n, path |-> p, query |-> q, fragment |-> f]

NoURL == U("", "", <<>>, "", "")

None == "None"

SeedHost == "a.test"
OtherHost == "b.test"

\* seeds: scheme and authority present (on_start only rejects the empty string)
Seeds ==
  { U("https", SeedHost, <<>>, "", ""),
    U("https", SeedHost, <<"/", "p">>, "x=1", "f") }

\* the resolved targets urljoin(resp.url, href) of the anchors of the web
Hrefs ==
  { U("https", SeedHost, <<"/">>, "", ""),
    U("https", SeedHost, <<"/", "p", "/">>, "", "f"),
    U("https", SeedHost, <<"/", "/", "p">>, "x=1", ""),
    U("https", OtherHost, <<"/", "p">>, "", ""),
    U("mailto", "", <<"m">>, "", "") }

\* the forms of the web: action attribute (NoURL when the form has none),
\* method attribute (None when the form has none) and the names of its fields
FormOf(a, m, i) == [action |-> a, method |-> m, inputs |-> i]

Forms ==
  { FormOf(NoURL, None, <<>>),
    FormOf(U("https", SeedHost, <<"/", "q">>, "", ""), None, <<"user", "pass">>),
    FormOf(U("https", SeedHost, <<"/", "p">>, "x=1", "f"), "post", <<"user">>) }

Statuses == {"200"}

\* re.sub(r'/+', '/', path)
RECURSIVE CollapseSlashes(_)
CollapseSlashes(p) ==
  IF Len(p) <= 1 THEN p
  ELSE IF p[1] = "/" /\ p[2] = "/" THEN CollapseSlashes(Tail(p))
  ELSE <<p[1]>> \o CollapseSlashes(Tail(p))

\* path.rstrip('/')
RECURSIVE RStripSlash(_)
RStripSlash(p) ==
  IF p = <<>> THEN p
  ELSE IF p[Len(p)] = "/" THEN RStripSlash(SubSeq(p, 1, Len(p) - 1))
  ELSE p

OrSlash(p) == IF p = <<>> THEN <<"/">> ELSE p

canonicalize(url) ==
  LET path == CollapseSlashes(OrSlash(url.path))
  IN  U(url.scheme, url.netloc, OrSlash(RStripSlash(path)), "", "")

strip_fragment(url) == U(url.scheme, url.netloc, url.path, url.query, "")

has_query(url) == url.query # ""

\* urljoin(base, ref) for an absolute or an empty ref
urljoin(base, ref) == IF ref = NoURL THEN base ELSE ref

\* ---------------------------------------------------------------- URL texts
\* The helpers above work on parsed URLs.  Below, urlparse and urlunparse of
\* urllib.parse on the text of a URL, a sequence of characters over the
\* alphabet of Texts, and canonicalize as the composition the code computes.
MaxPathLen == 3         \* characters of the path of a text

Take(s, n) == SubSeq(s, 1, IF n < Len(s) THEN n ELSE Len(s))
Drop(s, n) == SubSeq(s, n + 1, Len(s))

\* the least element of a non-empty set of numbers
Least(I) == CHOOSE i \in I : \A j \in I : i <= j

\* s.find(c, from): the first position from `from` on where c stands, 0 for none
Find(s, c, from) ==
  LET I == {i \in from..Len(s) : s[i] = c}
  IN  IF I = {} THEN 0 ELSE Least(I)

\* s.rfind(c): the last position where c stands, 0 for none
RFind(s, c) ==
  LET I == {i \in 1..Len(s) : s[i] = c}
  IN  IF I = {} THEN 0 ELSE CHOOSE i \in I : \A j \in I : j <= i

\* str.isalpha and scheme_chars, on the alphabet
letters == {"h", "t", "p", "a", "x", "q", "f", "H"}
scheme_chars == letters

\* str.lower, on the alphabet
Lower(c) == IF c = "H" THEN "h" ELSE c

http == <<"h", "t", "t", "p">>

\* the members of uses_params and of uses_netloc over the alphabet
uses_params == {<<>>, http}
uses_netloc == {<<>>, http}

ParseResult(s, n, p, pa, q, f) ==
  [scheme |-> s, netloc |-> n, path |-> p, params |-> pa, query |-> q, fragment |-> f]

\* urlsplit, first step: the scheme is what precedes the first ':' when it
\* starts with a letter and holds scheme characters only
splitscheme(text) ==
  LET i == Find(text, ":", 1)
  IN  IF i > 1 /\ text[1] \in letters /\ \A k \in 1..(i - 1) : text[k] \in scheme_chars
        THEN [scheme |-> [k \in 1..(i - 1) |-> Lower(text[k])], rest |-> Drop(text, i)]
        ELSE [scheme |-> <<>>, rest |-> text]

\* _splitnetloc(url, 2): the authority ends before the first of / ? #
splitnetloc(t) ==
  LET I == {k \in 3..Len(t) : t[k] \in {"/", "?", "#"}}
  IN  IF I = {} THEN [netloc |-> Drop(t, 2), rest |-> <<>>]
      ELSE [netloc |-> SubSeq(t, 3, Least(I) - 1), rest |-> Drop(t, Least(I) - 1)]

\* urlsplit, second step: the authority, when the rest starts with //
splitauthority(s) ==
  IF Take(s.rest, 2) = <<"/", "/">>
    THEN [scheme |-> s.scheme, netloc |-> splitnetloc(s.rest).netloc,
          rest |-> splitnetloc(s.rest).rest]
    ELSE [scheme |-> s.scheme, netloc |-> <<>>, rest |-> s.rest]

\* urlsplit, third step: url.split('#', 1)
splitfragment(s) ==
  IF Find(s.rest, "#", 1) > 0
    THEN [scheme |-> s.scheme, netloc |-> s.netloc,
          rest |-> Take(s.rest, Find(s.rest, "#", 1) - 1),
          fragment |-> Drop(s.rest, Find(s.rest, "#", 1))]
    ELSE [scheme |-> s.scheme, netloc |-> s.netloc, rest |-> s.rest, fragment |-> <<>>]

\* urlsplit, last step: url.split('?', 1)
splitquery(s) ==
  IF Find(s.rest, "?", 1) > 0
    THEN ParseResult(s.scheme, s.netloc, Take(s.rest, Find(s.rest, "?", 1) - 1), <<>>,
                     Drop(s.rest, Find(s.rest, "?", 1)), s.fragment)
    ELSE ParseResult(s.scheme, s.netloc, s.rest, <<>>, <<>>, s.fragment)

urlsplit(text) == splitquery(splitfragment(splitauthority(splitscheme(text))))

\* _splitparams(url): the position of the ';' that starts the parameters of
\* the last path segment, 0 for none
paramsAt(p) ==
  IF Find(p, "/", 1) > 0 THEN Find(p, ";", RFind(p, "/")) ELSE Find(p, ";", 1)

\* urlparse, after urlsplit: the parameters are split off the path
splitparams(r) ==
  IF r.scheme \in uses_params /\ paramsAt(r.path) > 0
    THEN [r EXCEPT !.path = Take(r.path, paramsAt(r.path) - 1),
                   !.params = Drop(r.path, paramsAt(r.path))]
    ELSE r

urlparse(text) == splitparams(urlsplit(text))

\* urlunsplit: the authority is written, with the // that introduces it, when
\* it is there or when the scheme takes one and the path does not start with //
joinauthority(r) ==
  IF r.netloc # <<>>
     \/ (r.scheme # <<>> /\ r.scheme \in uses_netloc /\ Take(r.path, 2) # <<"/", "/">>)
    THEN <<"/", "/">> \o r.netloc
           \o (IF r.path # <<>> /\ r.path[1] # "/" THEN <<"/">> ELSE <<>>) \o r.path
    ELSE r.path

urlunsplit(r) ==
  (IF r.scheme # <<>> THEN r.scheme \o <<":">> ELSE <<>>)
    \o joinauthority(r)
    \o (IF r.query # <<>> THEN <<"?">> \o r.query ELSE <<>>)
    \o (IF r.fragment # <<>> THEN <<"#">> \o r.fragment ELSE <<>>)

urlunparse(r) ==
  urlunsplit([r EXCEPT !.path = IF r.params # <<>> THEN r.path \o <<";">> \o r.params
                                  ELSE r.path])

\* lines 52-55 of canonicalize, on the result p of urlparse
canonical(p) ==
  urlunparse(ParseResult(p.scheme, p.netloc,
                         OrSlash(RStripSlash(CollapseSlashes(OrSlash(p.path)))),
                         <<>>, <<>>, <<>>))

\* canonicalize (lines 49-56) on the text of a URL
canonicalize_text(text) == canonical(urlparse(text))

\* the texts canonicalize is applied to: an optional scheme, an optional
\* authority, a path of up to MaxPathLen characters, an optional query and an
\* optional fragment
RECURSIVE PathsUpTo(_)
PathsUpTo(n) ==
  IF n = 0 THEN {<<>>}
  ELSE PathsUpTo(n - 1)
         \cup {Append(p, c) : p \in {x \in PathsUpTo(n - 1) : Len(x) = n - 1},
                               c \in {"/", "a", ";"}}

\* the paths of the texts
Paths == PathsUpTo(MaxPathLen)

Prefixes ==
  {s \o a : s \in {<<>>, http \o <<":">>, <<"H", "t", "t", "p", ":">>},
            a \in {<<>>, <<"/", "/", "x">>}}

Suffixes == {<<>>, <<"?", "q">>, <<"#", "f">>, <<"?", "q", "#", "f">>}

\* ---------------------------------------------------------------- nodes
NodeInfo(u, st, ap, pe, od) ==
  [url |-> u, status |-> st, accepts_params |-> ap, param_examples |-> pe, out_degree |-> od]

\* NodeInfo(url=u, param_examples=[])
Placeholder(u) == NodeInfo(u, None, FALSE, <<>>, 0)

Put(f, k, v) == [x \in (DOMAIN f) \cup {k} |-> IF x = k THEN v ELSE f[x]]

\* (mutant) the key is not created
SetDefault_absent(f, k, v) == f

\* dict.setdefault(k, v)
SetDefault(f, k, v) == IF k \in DOMAIN f THEN f ELSE Put(f, k, v)

EmptyMap == [x \in {} |-> 0]

\* a param example: the text of a URL, or the descriptor of a non-GET form
UrlExample(u) == [kind |-> "url", method |-> "", url |-> u, params |-> <<>>]
DescExample(m, u, ps) == [kind |-> "desc", method |-> m, url |-> u, params |-> ps]

\* '&'.join([f'{n}=example' for n in inputs])
RECURSIVE QueryOf(_)
QueryOf(inputs) ==
  IF Len(inputs) = 1 THEN inputs[1] \o "=example"
  ELSE inputs[1] \o "=example&" \o QueryOf(Tail(inputs))

Upper(m) == IF m = "post" THEN "POST" ELSE m

\* the example synthesized for a form
FormExample(abs_action, m, inputs) ==
  LET method == Upper(IF m = None THEN "GET" ELSE m)
  IN  IF inputs = <<>> THEN UrlExample(abs_action)
      ELSE IF method = "GET"
        THEN UrlExample([abs_action EXCEPT !.query =
               IF abs_action.query = "" THEN QueryOf(inputs)
               ELSE abs_action.query \o "&" \o QueryOf(inputs)])
        ELSE DescExample(method, abs_action, inputs)

VARIABLES
  depsOK,          \* requests and BeautifulSoup were imported
  start_url, max_pages, max_depth, same_domain, detect_params,
  pc,              \* position of run()
  queue, visited,  \* locals of run()
  nodes, adj,      \* self._nodes, self._adj
  url, depth, canon,   \* locals of the loop body
  anchorsDone, formsDone,        \* elements of the page iterated so far
  result,          \* the payloads finished_all has emitted
  fetched,         \* history: the calls of session.get, in order
  formSeen,        \* history: (action_canon, example) of the forms processed
  skipped,         \* history: the canonical URLs the domain filter skipped
  unread,          \* the edges of the elements that follow one whose extraction raised
  text_u, text_v,  \* two URL texts canonicalize is applied to
  canon_u, canon_v,    \* canonicalize(text_u), canonicalize(text_v)
  canon_uu,        \* canonicalize(canon_u)
  connected,       \* on_start connected progress and finished_all to the window
  events,          \* the signals emitted and not yet delivered to the window
  gui_nodes, gui_adj,  \* MainWindow.nodes, MainWindow.adj
  interruptionRequested    \* the interruption flag of the QThread

config == <<depsOK, start_url, max_pages, max_depth, same_domain, detect_params>>
locals == <<url, depth, canon>>
hist == <<fetched, formSeen, skipped, unread>>
texts == <<text_u, text_v, canon_u, canon_v, canon_uu>>
observer == <<connected, gui_nodes, gui_adj, interruptionRequested>>
window == <<observer, events>>
vars == <<config, pc, queue, visited, nodes, adj, locals, anchorsDone, formsDone, result, hist,
          texts, window>>

\* the worker runs with no slot connected to its signals
NoWindow ==
  /\ connected = FALSE
  /\ events = <<>>
  /\ gui_nodes = [x \in {} |-> 0] /\ gui_adj = [x \in {} |-> 0]
  /\ interruptionRequested = FALSE

\* no text is under test
NoTexts ==
  /\ text_u = <<>> /\ text_v = <<>>
  /\ canon_u = <<>> /\ canon_v = <<>> /\ canon_uu = <<>>

Init ==
  /\ depsOK \in BOOLEAN
  /\ start_url \in Seeds
  /\ max_pages \in 1..MaxPagesBound
  /\ max_depth \in 0..MaxDepthBound
  /\ same_domain \in BOOLEAN
  /\ detect_params \in BOOLEAN
  /\ pc = "start"
  /\ queue = <<>>
  /\ visited = {}
  /\ nodes = EmptyMap
  /\ adj = EmptyMap
  /\ url = NoURL /\ depth = 0 /\ canon = NoURL
  /\ anchorsDone = 0 /\ formsDone = 0
  /\ result = <<>>
  /\ fetched = <<>>
  /\ formSeen = {}
  /\ skipped = {}
  /\ unread = {}
  /\ NoTexts
  /\ NoWindow

base_domain == start_url.netloc

\* progress.emit / finished_all.emit: the signal is queued for the slot that
\* on_start connected (lines 345-346), if any
Emit(e) == IF connected THEN Append(events, e) ELSE events

\* run(), lines 87-90: a dependency is missing
MissingDeps ==
  /\ pc = "start" /\ ~depsOK
  /\ result' = Append(result, [nodes |-> EmptyMap, adj |-> EmptyMap])
  /\ pc' = "done"
  /\ events' = Emit([kind |-> "finished"])
  /\ UNCHANGED <<texts, observer, config, queue, visited, nodes, adj, locals, anchorsDone, formsDone, hist>>

\* run(), lines 92-98
Begin ==
  /\ pc = "start" /\ depsOK
  /\ queue' = <<[url |-> start_url, depth |-> 0]>>
  /\ visited' = {}
  /\ pc' = "loop"
  /\ UNCHANGED <<texts, window, config, nodes, adj, locals, anchorsDone, formsDone, result, hist>>

\* the while condition of line 100
LoopCond == queue # <<>> /\ Cardinality(visited) < max_pages

\* (mutant) queue[0]: the head is read and left in the queue
Pop_peek(q) == [head |-> Head(q), rest |-> q]

\* (mutant) queue.pop(): the newest entry is taken
Pop_last(q) == [head |-> q[Len(q)], rest |-> SubSeq(q, 1, Len(q) - 1)]

\* queue.pop(0)
Pop(q) == [head |-> Head(q), rest |-> Tail(q)]

\* (mutant) the depth test off by one
TooDeep_off(d) == d > max_depth + 1

\* line 102: depth > self.max_depth
TooDeep(d) == d > max_depth

\* lines 101-103
DiscardDepth ==
  /\ pc = "loop" /\ LoopCond
  /\ LET e == Pop(queue).head IN
     /\ TooDeep(e.depth)
     /\ url' = e.url /\ depth' = e.depth
     /\ queue' = Pop(queue).rest
  /\ UNCHANGED <<texts, window, config, pc, visited, nodes, adj, canon, anchorsDone, formsDone, result, hist>>

\* (mutant) the visited test on the raw URL instead of the canonical form
Seen_raw(u, c) == \E i \in 1..Len(fetched) : fetched[i].url = u

\* line 107: canon in visited
Seen(u, c) == c \in visited

\* lines 101-108
DiscardVisited ==
  /\ pc = "loop" /\ LoopCond
  /\ LET e == Pop(queue).head
         c == canonicalize(strip_fragment(e.url)) IN
     /\ ~TooDeep(e.depth)
     /\ Seen(e.url, c)
     /\ url' = e.url /\ depth' = e.depth /\ canon' = c
     /\ queue' = Pop(queue).rest
  /\ UNCHANGED <<texts, window, config, pc, visited, nodes, adj, anchorsDone, formsDone, result, hist>>

\* resp.url: the URL of the response.  A redirect is not modelled: the default
\* action of a form on a redirected page is an explicit action of Forms.
resp_url == url

\* (mutant) the filter compares the scheme instead of the authority
IsExternal_scheme(u) == same_domain /\ u.scheme # start_url.scheme

\* the domain filter of lines 110-111
IsExternal(u) == same_domain /\ u.netloc # base_domain

\* (mutant) the skipped URL is not marked
SkipMark_none(c) == visited

\* line 113: visited.add(canon)
SkipMark(c) == visited \cup {c}

\* lines 101-114
SkipExternal ==
  /\ pc = "loop" /\ LoopCond
  /\ LET e == Pop(queue).head
         c == canonicalize(strip_fragment(e.url)) IN
     /\ ~TooDeep(e.depth)
     /\ ~Seen(e.url, c)
     /\ IsExternal(e.url)
     /\ url' = e.url /\ depth' = e.depth /\ canon' = c
     /\ queue' = Pop(queue).rest
     /\ visited' = SkipMark(c)
     /\ skipped' = skipped \cup {c}
  /\ UNCHANGED <<texts, window, config, pc, nodes, adj, anchorsDone, formsDone, result, fetched, formSeen, unread>>

\* lines 128-138: the node of a fetched URL
FetchedNode(u, c, status) ==
  IF detect_params /\ has_query(u)
    THEN NodeInfo(c, status, TRUE, <<UrlExample(u)>>, 0)
    ELSE NodeInfo(c, status, FALSE, <<>>, 0)

\* (mutant) only a successful fetch marks the URL visited
AddVisited_ok(c, status) == IF status = None THEN visited ELSE visited \cup {c}

\* line 131: visited.add(canon), whatever the fetch returned
AddVisited(c, status) == visited \cup {c}

\* (mutant) the except branch leaves content_type and text of the previous response
BodyKept_stale(status) == TRUE

\* lines 119-125: content_type and text are those of this response, '' after an exception
BodyKept(status) == status # None

\* lines 101-141: dequeue, fetch, record the node.
\* status = None is the except branch; html says whether the body is parsed.
Fetch ==
  /\ pc = "loop" /\ LoopCond
  /\ LET e == Pop(queue).head
         c == canonicalize(strip_fragment(e.url)) IN
     /\ ~TooDeep(e.depth)
     /\ ~Seen(e.url, c)
     /\ ~IsExternal(e.url)
     /\ \E status \in Statuses \cup {None}, html \in BOOLEAN :
          /\ html => BodyKept(status)
          /\ url' = e.url /\ depth' = e.depth /\ canon' = c
          /\ queue' = Pop(queue).rest
          /\ nodes' = Put(nodes, c, FetchedNode(e.url, c, status))
          /\ adj' = SetDefault(adj, c, {})
          /\ visited' = AddVisited(c, status)
          /\ events' = Emit([kind |-> "node", url |-> c])
          /\ fetched' = Append(fetched, [url |-> e.url, canon |-> c, depth |-> e.depth, status |-> status])
          /\ pc' = IF html THEN "parse" ELSE "update"
  /\ UNCHANGED <<texts, observer, config, anchorsDone, formsDone, result, formSeen, skipped, unread>>

\* lines 143-146: the body parses
ParseHTML ==
  /\ pc = "parse"
  /\ pc' = "anchors"
  /\ UNCHANGED <<texts, window, config, queue, visited, nodes, adj, locals, anchorsDone, formsDone, result, hist>>

\* the canonical targets an anchor or a form action of the web can have
ElementTargets ==
  {canonicalize(strip_fragment(h)) : h \in {x \in Hrefs : x.scheme # "mailto"}}
    \cup {canonicalize(strip_fragment(f.action)) : f \in {x \in Forms : x.action # NoURL}}

\* lines 143-146 and 199-200: BeautifulSoup raises, nothing is extracted
BodyError ==
  /\ pc = "parse"
  /\ pc' = "update"
  /\ UNCHANGED <<texts, window, config, queue, visited, nodes, adj, locals, anchorsDone, formsDone, result, hist>>

\* lines 147-200: the extraction of an anchor or a form raises (urljoin on a
\* malformed href); the except clause of line 199 ends the whole extraction.
\* The page may hold one more well-formed element after the failing one.
ElementError ==
  /\ \/ pc = "anchors" /\ anchorsDone < MaxAnchors
     \/ pc = "forms" /\ formsDone < MaxForms
  /\ \E rest \in SUBSET ElementTargets :
       /\ Cardinality(rest) <= 1
       /\ unread' = {[from |-> canon, to |-> t] : t \in rest}
  /\ pc' = "update"
  /\ anchorsDone' = 0 /\ formsDone' = 0
  /\ UNCHANGED <<texts, window, config, queue, visited, nodes, adj, locals, result, fetched, formSeen, skipped>>

\* lines 158-163 and 191-194: mark the target as accepting parameters
MarkParams(ns, c, example) ==
  LET ns1 == SetDefault(ns, c, Placeholder(c))
  IN  [ns1 EXCEPT ![c].accepts_params = TRUE,
                  ![c].param_examples = Append(@, example)]

\* (mutant) the admission test off by one
Admit_le(q, c, raw, d) ==
  IF c \notin visited /\ Cardinality(visited) + Len(q) <= max_pages
    THEN Append(q, [url |-> raw, depth |-> d + 1])
    ELSE q

\* lines 165-167 and 196-197: the admission check of the frontier
Admit(q, c, raw, d) ==
  IF c \notin visited /\ Cardinality(visited) + Len(q) < max_pages
    THEN Append(q, [url |-> raw, depth |-> d + 1])
    ELSE q

\* lines 147-167: one iteration of the anchor loop
Anchor ==
  /\ pc = "anchors" /\ anchorsDone < MaxAnchors
  /\ anchorsDone' = anchorsDone + 1
  /\ \E href \in Hrefs :
       IF href.scheme = "mailto"
         THEN UNCHANGED <<queue, nodes, adj, events>>
         ELSE LET abs_url == strip_fragment(urljoin(resp_url, href))
                  to_canon == canonicalize(abs_url) IN
              /\ adj' = [adj EXCEPT ![canon] = @ \cup {to_canon}]
              /\ events' = Emit([kind |-> "edge", from |-> canon, to |-> to_canon])
              /\ nodes' = IF detect_params /\ has_query(abs_url)
                            THEN MarkParams(nodes, to_canon, UrlExample(abs_url))
                            ELSE nodes
              /\ queue' = Admit(queue, to_canon, abs_url, depth)
  /\ UNCHANGED <<texts, observer, config, pc, visited, locals, formsDone, result, hist>>

\* line 170: the anchor loop is exhausted
FindForms ==
  /\ pc = "anchors"
  /\ anchorsDone' = 0
  /\ pc' = "forms"
  /\ UNCHANGED <<texts, window, config, queue, visited, nodes, adj, locals, formsDone, result, hist>>

\* lines 171-197: one iteration of the form loop
Form ==
  /\ pc = "forms" /\ formsDone < MaxForms
  /\ formsDone' = formsDone + 1
  /\ \E f \in Forms :
       LET action == IF f.action = NoURL THEN resp_url ELSE f.action
           abs_action == strip_fragment(urljoin(resp_url, action))
           action_canon == canonicalize(abs_action)
           example == FormExample(abs_action, f.method, f.inputs) IN
       /\ adj' = [adj EXCEPT ![canon] = @ \cup {action_canon}]
       /\ events' = Emit([kind |-> "edge", from |-> canon, to |-> action_canon])
       /\ nodes' = MarkParams(nodes, action_canon, example)
       /\ queue' = Admit(queue, action_canon, abs_action, depth)
       /\ formSeen' = formSeen \cup {[canon |-> action_canon, example |-> example]}
  /\ UNCHANGED <<texts, observer, config, pc, visited, locals, anchorsDone, result, fetched, skipped, unread>>

\* the form loop is exhausted
EndForms ==
  /\ pc = "forms"
  /\ formsDone' = 0
  /\ pc' = "update"
  /\ UNCHANGED <<texts, window, config, queue, visited, nodes, adj, locals, anchorsDone, result, hist>>

\* lines 202-209: recompute the out-degrees, then the next iteration
UpdateOutDegree ==
  /\ pc = "update"
  /\ nodes' = [k \in DOMAIN nodes |->
                 IF k \in DOMAIN adj THEN [nodes[k] EXCEPT !.out_degree = Cardinality(adj[k])]
                 ELSE nodes[k]]
  /\ pc' = "loop"
  /\ unread' = {}
  /\ UNCHANGED <<texts, window, config, queue, visited, adj, locals, anchorsDone, formsDone, result, fetched, formSeen, skipped>>

\* (mutant) len(self._adj) for len(self._adj.get(n, []))
Finalized_keys(ns, a) ==
  [k \in (DOMAIN ns) \cup (DOMAIN a) |->
     IF k \in DOMAIN a
       THEN [(IF k \in DOMAIN ns THEN ns[k] ELSE Placeholder(k))
               EXCEPT !.out_degree = Cardinality(DOMAIN a)]
       ELSE ns[k]]

\* lines 211-216: the finalize pass
Finalized(ns, a) ==
  [k \in (DOMAIN ns) \cup (DOMAIN a) |->
     IF k \in DOMAIN a
       THEN [(IF k \in DOMAIN ns THEN ns[k] ELSE Placeholder(k))
               EXCEPT !.out_degree = Cardinality(a[k])]
       ELSE ns[k]]

\* lines 100 (loop exit) and 211-218: finalize and emit finished_all
Finalize ==
  /\ pc = "loop" /\ ~LoopCond
  /\ nodes' = Finalized(nodes, adj)
  /\ result' = Append(result, [nodes |-> nodes', adj |-> adj])
  /\ pc' = "done"
  /\ events' = Emit([kind |-> "finished"])
  /\ UNCHANGED <<texts, observer, config, queue, visited, adj, locals, anchorsDone, formsDone, hist>>

Next ==
  \/ MissingDeps
  \/ Begin
  \/ DiscardDepth
  \/ DiscardVisited
  \/ SkipExternal
  \/ Fetch
  \/ ParseHTML
  \/ BodyError
  \/ ElementError
  \/ Anchor
  \/ FindForms
  \/ Form
  \/ EndForms
  \/ UpdateOutDegree
  \/ Finalize

Spec == Init /\ [][Next]_vars

\* the scheduler runs the worker thread until run() returns
FairSpec == Spec /\ WF_vars(Next)

\* ---------------------------------------------------------------- canonicalize alone
\* the path of a text with its repeated and trailing slashes removed
Squash(p) == RStripSlash(CollapseSlashes(p))

\* no crawl is set up
NoCrawl ==
  /\ depsOK = FALSE
  /\ start_url = NoURL
  /\ max_pages = 1 /\ max_depth = 0
  /\ same_domain = FALSE /\ detect_params = FALSE
  /\ pc = "start"
  /\ queue = <<>> /\ visited = {}
  /\ nodes = EmptyMap /\ adj = EmptyMap
  /\ url = NoURL /\ depth = 0 /\ canon = NoURL
  /\ anchorsDone = 0 /\ formsDone = 0
  /\ result = <<>>
  /\ fetched = <<>> /\ formSeen = {} /\ skipped = {} /\ unread = {}
  /\ NoWindow

\* two texts with one scheme and authority whose paths are equal up to
\* repeated and trailing slashes, each with any query and fragment
CanonInit ==
  /\ NoCrawl
  /\ \E pre \in Prefixes, p1 \in Paths, p2 \in Paths,
        s1 \in Suffixes, s2 \in Suffixes :
       /\ Squash(p1) = Squash(p2)
       /\ text_u = pre \o p1 \o s1
       /\ text_v = pre \o p2 \o s2
  /\ canon_u = <<>> /\ canon_v = <<>> /\ canon_uu = <<>>

\* canonicalize is called on both texts and again on its first result (the
\* result of canonicalize is never the empty text)
CanonicalizeTexts ==
  /\ canon_u = <<>>
  /\ canon_u' = canonicalize_text(text_u)
  /\ canon_v' = canonicalize_text(text_v)
  /\ canon_uu' = canonicalize_text(canon_u')
  /\ UNCHANGED <<text_u, text_v, window, config, pc, queue, visited, nodes, adj, locals,
                 anchorsDone, formsDone, result, hist>>

CanonNext == CanonicalizeTexts

CanonSpec == CanonInit /\ [][CanonNext]_vars

\* ---------------------------------------------------------------- the window
GuiMaxPages == 3        \* max_pages ranges over 1..GuiMaxPages under the window

\* A NodeInfo the window holds: the object the worker emitted, which is the
\* one in self._nodes (shared), or one the window created itself (own).  The
\* rows of the table widget, a display of what the handlers read, are left out.
SharedNode == [shared |-> TRUE, out_degree |-> 0]
OwnNode(od) == [shared |-> FALSE, out_degree |-> od]

\* on_start, lines 323-350: the window starts a worker only when the
\* dependencies are there, and connects its slots before worker.start()
GuiInit ==
  /\ depsOK = TRUE
  /\ start_url \in Seeds
  /\ max_pages \in 1..GuiMaxPages
  /\ max_depth \in 0..MaxDepthBound
  /\ same_domain \in BOOLEAN
  /\ detect_params \in BOOLEAN
  /\ pc = "start"
  /\ queue = <<>> /\ visited = {}
  /\ nodes = EmptyMap /\ adj = EmptyMap
  /\ url = NoURL /\ depth = 0 /\ canon = NoURL
  /\ anchorsDone = 0 /\ formsDone = 0
  /\ result = <<>>
  /\ fetched = <<>> /\ formSeen = {} /\ skipped = {} /\ unread = {}
  /\ NoTexts
  /\ connected = TRUE
  /\ events = <<>>
  /\ gui_nodes = EmptyMap /\ gui_adj = EmptyMap
  /\ interruptionRequested = FALSE

\* _update_table_row(url), lines 387-394, on the window's nodes gn, the
\* window's adjacency ga and the worker's nodes en: node.out_degree is written
\* into the worker's NodeInfo when the window holds that object
UpdateTableRow(gn, ga, en, u) ==
  LET gn1 == IF u \in DOMAIN gn THEN gn ELSE Put(gn, u, OwnNode(0))
      od == IF u \in DOMAIN ga THEN Cardinality(ga[u]) ELSE 0
  IN  IF gn1[u].shared
        THEN [gui |-> gn1, eng |-> [en EXCEPT ![u].out_degree = od]]
        ELSE [gui |-> [gn1 EXCEPT ![u].out_degree = od], eng |-> en]

\* on_progress, lines 352-364: the slot runs in the window's thread on the
\* oldest undelivered progress signal
OnProgress ==
  /\ events # <<>> /\ Head(events).kind # "finished"
  /\ events' = Tail(events)
  /\ LET data == Head(events) IN
       IF data.kind = "edge"
         THEN LET a1 == SetDefault(gui_adj, data.from, {})
                  a2 == [a1 EXCEPT ![data.from] = @ \cup {data.to}]
                  a3 == SetDefault(a2, data.to, {})
                  r1 == UpdateTableRow(gui_nodes, a3, nodes, data.from)
                  r2 == UpdateTableRow(r1.gui, a3, r1.eng, data.to) IN
              /\ gui_adj' = a3
              /\ gui_nodes' = r2.gui
              /\ nodes' = r2.eng
         ELSE /\ gui_nodes' = Put(gui_nodes, data.url, SharedNode)
              /\ UNCHANGED <<gui_adj, nodes>>
  /\ UNCHANGED <<texts, connected, interruptionRequested, config, pc, queue, visited, adj,
                 locals, anchorsDone, formsDone, result, hist>>

\* the rows of a list of URLs updated one after the other
RECURSIVE UpdateTableRows(_, _, _, _)
UpdateTableRows(gn, ga, en, us) ==
  IF us = {} THEN [gui |-> gn, eng |-> en]
  ELSE LET u == CHOOSE x \in us : TRUE
           r == UpdateTableRow(gn, ga, en, u)
       IN  UpdateTableRows(r.gui, ga, r.eng, us \ {u})

\* on_finished_all, lines 396-403: the window takes the worker's dictionary
\* as its own and updates the row of every adjacency key
OnFinishedAll ==
  /\ events # <<>> /\ Head(events).kind = "finished"
  /\ events' = Tail(events)
  /\ LET a == result[Len(result)].adj
         r == UpdateTableRows([k \in DOMAIN nodes |-> SharedNode], a, nodes, DOMAIN a) IN
       /\ gui_adj' = a
       /\ gui_nodes' = r.gui
       /\ nodes' = r.eng
  /\ UNCHANGED <<texts, connected, interruptionRequested, config, pc, queue, visited, adj,
                 locals, anchorsDone, formsDone, result, hist>>

\* QThread.requestInterruption(), which CrawlerWorker inherits (line 67): the
\* only way to ask a started worker to stop.  run() never reads the flag.
RequestInterruption ==
  /\ connected /\ pc # "done" /\ ~interruptionRequested
  /\ interruptionRequested' = TRUE
  /\ UNCHANGED <<texts, connected, events, gui_nodes, gui_adj, config, pc, queue, visited,
                 nodes, adj, locals, anchorsDone, formsDone, result, hist>>

GuiNext ==
  \/ Begin
  \/ DiscardDepth
  \/ DiscardVisited
  \/ SkipExternal
  \/ Fetch
  \/ ParseHTML
  \/ BodyError
  \/ ElementError
  \/ Anchor
  \/ FindForms
  \/ Form
  \/ EndForms
  \/ UpdateOutDegree
  \/ Finalize
  \/ OnProgress
  \/ OnFinishedAll
  \/ RequestInterruption

GuiSpec == GuiInit /\ [][GuiNext]_vars

\* ---------------------------------------------------------------- claims

\* the targets of the edges of an adjacency table
Targets(a) == UNION {a[k] : k \in DOMAIN a}

\* the canonical URLs session.get was called for
FetchedCanons == {fetched[i].canon : i \in 1..Len(fetched)}

\* the fetch of the seed failed
SeedFailed == Len(fetched) >= 1 /\ fetched[1].status = None

\* C1: the visited set never holds more than max_pages canonical URLs, and
\* session.get is called at most max_pages times in a run.
C1_BudgetRespected ==
  /\ Cardinality(visited) <= max_pages
  /\ Len(fetched) <= max_pages
  /\ \A i \in 1..Len(fetched) : fetched[i].canon \in visited

\* the budget is used up by fetches, one of which failed
C1_Witness ==
  /\ max_pages >= 2
  /\ Len(fetched) = max_pages
  /\ \E i \in 1..Len(fetched) : fetched[i].status = None

C3_FetchedOnce ==
  \A i \in 1..Len(fetched) : \A j \in 1..Len(fetched) :
     fetched[i].canon = fetched[j].canon => i = j

\* an entry was dequeued and discarded whose canonical form had been fetched,
\* with a failure, under another raw URL
C3_Witness ==
  /\ pc = "loop" /\ depth <= max_depth
  /\ \E i \in 1..Len(fetched) :
        /\ fetched[i].canon = canon
        /\ fetched[i].url # url
        /\ fetched[i].status = None

\* C4: no URL is fetched at a depth above max_depth; the step that discards
\* an entry for its depth leaves visited, the fetch history, the nodes and the
\* adjacency as they are, and the discarded URL is still the target of an edge.
C4_DepthRespected ==
  /\ [](\A i \in 1..Len(fetched) : fetched[i].depth <= max_depth)
  /\ []((pc = "loop" /\ depth > max_depth) =>
          canonicalize(strip_fragment(url)) \in Targets(adj))
  /\ [][(pc = "loop" /\ LoopCond /\ Head(queue).depth > max_depth) =>
          (visited' = visited /\ fetched' = fetched /\ adj' = adj /\ nodes' = nodes)]_vars

\* an entry of depth max_depth + 1 was discarded: it is an edge target and unvisited
C4_Witness ==
  /\ pc = "loop" /\ depth = max_depth + 1
  /\ canonicalize(strip_fragment(url)) \notin visited
  /\ canonicalize(strip_fragment(url)) \in Targets(adj)

\* C5: with same_domain set, session.get is never called for a URL whose
\* authority is not the seed's.
C5_DomainScoped ==
  same_domain => \A i \in 1..Len(fetched) : fetched[i].url.netloc = base_domain

\* an external URL was dequeued and skipped; it is an edge target
C5_Witness ==
  /\ same_domain
  /\ pc = "loop" /\ url.netloc # base_domain /\ depth <= max_depth
  /\ canon \in visited /\ canon \in Targets(adj)
  /\ canon \notin FetchedCanons

\* C6: the depths of the dequeued entries never decrease, and the frontier
\* is ordered by depth, no entry being shallower than the last one dequeued.
C6_BreadthFirst ==
  /\ [][depth' >= depth]_vars
  /\ [](\A i \in 1..Len(queue) :
          /\ queue[i].depth >= depth
          /\ \A j \in i..Len(queue) : queue[i].depth <= queue[j].depth)

\* the frontier holds entries of two depths
C6_Witness ==
  \E i \in 1..Len(queue) : \E j \in 1..Len(queue) : queue[i].depth < queue[j].depth

\* C7: in the result every source and every target of an edge has a node.
C7_EndpointsHaveNodes ==
  \A i \in 1..Len(result) :
    (DOMAIN result[i].adj) \cup Targets(result[i].adj) \subseteq DOMAIN result[i].nodes

\* C8: in the result the action of every processed form has a node that
\* accepts parameters and lists the form's example.
C8_FormTargetsMarked ==
  \A i \in 1..Len(result) : \A f \in formSeen :
    /\ f.canon \in DOMAIN result[i].nodes
    /\ result[i].nodes[f.canon].accepts_params
    /\ \E j \in 1..Len(result[i].nodes[f.canon].param_examples) :
          result[i].nodes[f.canon].param_examples[j] = f.example

\* C9: in the result the out_degree of every node is the size of its
\* adjacency set, 0 when it has none.
C9_OutDegree ==
  \A i \in 1..Len(result) : \A k \in DOMAIN result[i].nodes :
    result[i].nodes[k].out_degree =
      IF k \in DOMAIN result[i].adj THEN Cardinality(result[i].adj[k]) ELSE 0

\* the result holds a node with two targets and a node without adjacency entry
C9_Witness ==
  /\ Len(result) = 1
  /\ \E k \in DOMAIN result[1].nodes : result[1].nodes[k].out_degree = 2
  /\ \E k \in DOMAIN result[1].nodes : k \notin DOMAIN result[1].adj

\* C10: a failed fetch leaves a visited node without status and without
\* edges, the body of the failed response is never extracted, the iteration
\* ends at the out-degree update, and a run whose seed failed ends with a
\* result of exactly that one node.
C10_FailureNonFatal ==
  /\ \A i \in 1..Len(fetched) :
        fetched[i].status = None =>
          /\ fetched[i].canon \in visited
          /\ fetched[i].canon \in DOMAIN nodes
          /\ nodes[fetched[i].canon].status = None
          /\ fetched[i].canon \in DOMAIN adj
          /\ adj[fetched[i].canon] = {}
  /\ (Len(fetched) >= 1 /\ fetched[Len(fetched)].status = None)
        => pc \in {"update", "loop", "done"}
  /\ (SeedFailed /\ pc \in {"update", "loop", "done"})
        => DOMAIN nodes = {canonicalize(strip_fragment(start_url))} /\ queue = <<>>
  /\ (SeedFailed /\ pc = "done")
        => /\ Len(result) = 1
           /\ DOMAIN result[1].nodes = {canonicalize(strip_fragment(start_url))}
           /\ \A k \in DOMAIN result[1].nodes : result[1].nodes[k].status = None

\* a fetch other than the seed's failed and the run went on to its end
C10_Witness ==
  /\ pc = "done" /\ Len(fetched) >= 3
  /\ fetched[2].status = None /\ fetched[3].status # None

\* s is a prefix of t
IsPrefix(s, t) == Len(s) <= Len(t) /\ SubSeq(t, 1, Len(s)) = s

\* C15: a step never removes a node, never resets accepts_params and only
\* extends param_examples.
C15_NodesAccumulate ==
  [][\A k \in DOMAIN nodes :
       /\ k \in DOMAIN nodes'
       /\ nodes[k].accepts_params => nodes'[k].accepts_params
       /\ IsPrefix(nodes[k].param_examples, nodes'[k].param_examples)]_vars

\* C16: in every state, also between two elements of a page, the out_degree
\* of a node with an adjacency set is the size of that set.
C16_OutDegreeImmediate ==
  \A k \in (DOMAIN adj) \cap (DOMAIN nodes) : nodes[k].out_degree = Cardinality(adj[k])

\* C17: when the extraction of a page has ended, the elements that follow an
\* element whose extraction raised have their edges.
C17_ElementsIndependent ==
  pc = "update" => \A m \in unread : m.from \in DOMAIN adj /\ m.to \in adj[m.from]

\* C18: visited holds exactly the canonical URLs fetched or skipped by the
\* domain filter, and only the step that dequeues an entry within max_depth
\* and fetches or skips it adds to visited, namely that entry's canonical form.
C18_VisitedExactly ==
  /\ [](visited = FetchedCanons \cup skipped)
  /\ [][visited' # visited =>
          /\ pc = "loop" /\ queue # <<>>
          /\ Head(queue).depth <= max_depth
          /\ queue' = Tail(queue)
          /\ visited' = visited \cup {canonicalize(strip_fragment(Head(queue).url))}
          /\ (Len(fetched') = Len(fetched) + 1 \/ skipped' # skipped)]_vars

\* an entry was discarded for its depth and a URL was skipped; both are edge
\* targets, the first is not visited
C18_Witness ==
  /\ pc = "loop" /\ depth > max_depth
  /\ canonicalize(strip_fragment(url)) \in Targets(adj) \ visited
  /\ skipped # {} /\ Len(fetched) >= 1

\* C19 as stated: a skipped URL is visited, never fetched, and the skip
\* leaves the number of pages the loop bound still allows as it was.
C19_SkipFree ==
  /\ [](skipped \subseteq visited /\ skipped \cap FetchedCanons = {})
  /\ [][skipped' # skipped =>
          max_pages - Cardinality(visited') = max_pages - Cardinality(visited)]_vars

\* C19 amended: a skipped URL is visited, never fetched, and takes one of the
\* max_pages slots of visited: fetches and skips together never exceed max_pages.
C19_SkipTakesSlot ==
  /\ [](/\ skipped \subseteq visited
        /\ skipped \cap FetchedCanons = {}
        /\ Len(fetched) + Cardinality(skipped) = Cardinality(visited)
        /\ Len(fetched) + Cardinality(skipped) <= max_pages)
  /\ [][skipped' # skipped =>
          /\ fetched' = fetched
          /\ Cardinality(visited') = Cardinality(visited) + 1]_vars

\* the run ended with the budget used up by a skip, a discovered URL unvisited
C19_Witness ==
  /\ pc = "done" /\ skipped # {}
  /\ Len(fetched) < max_pages
  /\ Cardinality(visited) = max_pages
  /\ Targets(adj) \ visited # {}

\* C20: once run() has set up the frontier, |visited| + |frontier| never
\* exceeds max_pages, at the loop head and inside the loop body.
C20_FrontierBound ==
  pc # "start" => Cardinality(visited) + Len(queue) <= max_pages

\* at the loop head the frontier holds two entries and the bound is tight
C20_Witness ==
  /\ pc = "loop" /\ Len(queue) = 2
  /\ Cardinality(visited) + Len(queue) = max_pages

\* C13: canonicalize applied to its own result returns that result.
C13_Idempotent ==
  canon_u # <<>> => canon_uu = canon_u

\* the characters of a text
CharsOf(t) == {t[i] : i \in 1..Len(t)}

\* two split URLs with the same scheme and authority whose paths differ only
\* by repeated or trailing slashes
SameParts(x, y) ==
  /\ x.scheme = y.scheme
  /\ x.netloc = y.netloc
  /\ Squash(x.path) = Squash(y.path)

SameUpToNoise(a, b) == SameParts(urlsplit(a), urlsplit(b))

\* C14: two texts with the same scheme and authority whose paths differ only
\* by repeated or trailing slashes, whatever their queries and fragments, have
\* the same canonicalize result, and it holds no query and no fragment.
C14_NoiseInsensitive ==
  (canon_u # <<>> /\ SameUpToNoise(text_u, text_v))
    => /\ canon_u = canon_v
       /\ CharsOf(canon_u) \cap {"?", "#"} = {}

\* C11: while run() has not returned, a step of the window's slots leaves the
\* worker's nodes, adjacency, frontier and visited set as they were.
C11_ObserverReadOnly ==
  [][(pc # "done" /\ events # <<>> /\ events' = Tail(events))
       => /\ nodes' = nodes /\ adj' = adj
          /\ queue' = queue /\ visited' = visited]_vars

\* C12: once the interruption of the worker is requested, no URL is fetched.
\* (That the finalize pass runs in every run is C2.)
C12_CancelStopsFetching ==
  [][interruptionRequested => fetched' = fetched]_vars

\* C21: the keys of the adjacency table are exactly the canonical URLs
\* fetched so far and all have a node, at the loop head and inside the loop
\* body, and the finalize pass adds no node to the node table.
C21_AdjacencyKeysFetched ==
  /\ [](DOMAIN adj = FetchedCanons /\ DOMAIN adj \subseteq DOMAIN nodes)
  /\ [][(pc # "done" /\ pc' = "done") => DOMAIN nodes' = DOMAIN nodes]_vars

\* the finalize pass has run over two fetched pages, an edge target that was
\* never fetched and a node that is no adjacency key
C21_Witness ==
  /\ pc = "done" /\ Len(result) = 1
  /\ Len(fetched) >= 2
  /\ Targets(adj) \ DOMAIN adj # {}
  /\ DOMAIN nodes \ DOMAIN adj # {}
  /\ DOMAIN result[1].nodes = DOMAIN nodes

====
